---- MODULE Spec2Model ----
(***************************************************************************)
(* A model of the backtesting engine of vega-backtester                    *)
(* (src/src/lib/polygon.ts, class BacktestingEngine at lines 661-1334 and  *)
(* fetchMinuteData at lines 46-90).                                        *)
(*                                                                         *)
(* Conventions                                                             *)
(*  - A Date is the number of minutes since 1970-01-01 00:00, local time   *)
(*    taken to be UTC.  Day 0 is a Thursday, as in JavaScript.             *)
(*  - Money is an integer number of units, UnitsPerDollar to the dollar,   *)
(*    the coarsest unit in which the half-spread (0.005) and the 0.1 %     *)
(*    slippage of a price in whole cents are exact.  The model computes    *)
(*    exactly where JavaScript rounds to the nearest double.               *)
(*  - A metric is a record with a field kind: "rat" (scale * num / den),   *)
(*    "NaN", or a symbolic finite real ("pow", "stddev", "ratio", "draw"). *)
(*  - A value of seededRandom is represented by the generator state it is  *)
(*    computed from (the value is state / 2147483647).                     *)
(***************************************************************************)
EXTENDS Integers, Sequences, FiniteSets, Bags, TLC

VARIABLES
    capital,        \* this.capital, in dollars
    strategies,     \* this.strategies
    startDate,      \* this.startDate
    endDate,        \* this.endDate
    mode,           \* this.mode
    seed,           \* this.seed, one cell per engine instance
    pc,             \* position of runBacktest / backtestStrategy / fetchMinuteData
    si,             \* index of the strategy of the for loop of runBacktest
    ti,             \* index of the ticker of the for loop of backtestStrategy
    retryCount,     \* parameter retryCount of the fetchMinuteData call in progress
    tickerData,     \* the Map tickerData of backtestStrategy
    run,            \* the locals of performRealBacktest
    results,        \* the array results of runBacktest, one per engine instance
    returned,       \* what runBacktest handed to its caller, one per engine instance
    waits,          \* delays awaited by the fetchMinuteData call of the current ticker
    attempts,       \* requests sent to the source for the current ticker
    lastResponse,   \* the last response of the source
    rateLimited,    \* number of 429 responses of the run
    raised,         \* per strategy started: the failures raised while it is computed
                    \* and the tickers whose request was given up
    paths,          \* per strategy done: "real" or "mock", what backtestStrategy returned
    fetched,        \* per strategy done: the Map tickerData it was computed from
    sim,            \* the locals of simulateTickerTrading (bar-loop specification)
    analysis,       \* input and output of calculatePerformanceMetrics (analyzer specification)
    gen,            \* this.seed under successive calls of seededRandom (generator specification)
    again,          \* what a second call of runBacktest on instance 1 handed to its caller
    cal             \* arguments and result of getTradingDays (calendar specification)

vars == <<capital, strategies, startDate, endDate, mode, seed, pc, si, ti, retryCount,
          tickerData, run, results, returned, waits, attempts, lastResponse, rateLimited,
          raised, paths, fetched, sim, analysis, gen, again, cal>>

---------------------------------------------------------------------------
(* Numbers *)

Modulus == 2147483647
Multiplier == 1664525
Increment == 1013904223

UnitsPerDollar == 200 * 1000
UnitsPerCent == UnitsPerDollar \div 100

\* x + y for x = [q, r], y = [q, r] standing for q * Modulus + r, 0 <= r < Modulus.
AddQR(x, y) ==
    IF x.r >= Modulus - y.r
    THEN [q |-> x.q + y.q + 1, r |-> x.r - (Modulus - y.r)]
    ELSE [q |-> x.q + y.q, r |-> x.r + y.r]

\* a * x as [q, r], for 0 <= a <= Base and 0 <= x < Modulus, by Schrage's
\* decomposition Modulus = a * (Modulus \div a) + Modulus % a, in which every
\* intermediate product stays below Modulus.
Base == 2^15
MulSmall(a, x) ==
    IF a = 0 THEN [q |-> 0, r |-> 0]
    ELSE LET xd == x \div (Modulus \div a)
             xm == x % (Modulus \div a)
             t == a * xm - (Modulus % a) * xd
         IN  IF t < 0 THEN [q |-> xd - 1, r |-> t + Modulus] ELSE [q |-> xd, r |-> t]

\* k * s as [q, r], for k >= 0 and 0 <= s < Modulus: the exact product of two
\* numbers, which JavaScript computes in a double (below 2^53) and a 32-bit
\* integer cannot hold.
RECURSIVE MulQR(_, _)
MulQR(k, s) ==
    IF k < Base THEN MulSmall(k, s)
    ELSE LET high == MulQR(k \div Base, s)
             shifted == MulSmall(Base, high.r)
         IN  AddQR([q |-> high.q * Base + shifted.q, r |-> shifted.r],
                   MulSmall(k % Base, s))

\* a * b < c * d, for non-negative numbers below Modulus.
LessQR(x, y) == x.q < y.q \/ (x.q = y.q /\ x.r < y.r)
ProductLess(a, b, c, d) == LessQR(MulQR(a, b), MulQR(c, d))

Zero == [kind |-> "rat", scale |-> 1, num |-> 0, den |-> 1]
NaN == [kind |-> "NaN"]
Infinity == [kind |-> "Infinity"]
Rat(scale, num, den) == [kind |-> "rat", scale |-> scale, num |-> num, den |-> den]
\* scale * num / den as JavaScript divides: 0 / 0 is NaN, x / 0 is +-Infinity.
Div(scale, num, den) ==
    IF den # 0 THEN Rat(scale, num, den)
    ELSE IF num = 0 THEN NaN ELSE Infinity

IsFinite(x) == x.kind # "NaN" /\ x.kind # "Infinity"

\* JavaScript's a || b on numbers: b when a is 0 (or missing).
OrElse(a, b) == IF a = 0 THEN b ELSE a

RECURSIVE SumOf(_)
SumOf(s) == IF s = <<>> THEN 0 ELSE Head(s) + SumOf(Tail(s))

RECURSIVE MaxOf(_)
MaxOf(s) == IF Len(s) = 1 THEN s[1]
            ELSE LET m == MaxOf(Tail(s)) IN IF s[1] > m THEN s[1] ELSE m

RECURSIVE MinOf(_)
MinOf(s) == IF Len(s) = 1 THEN s[1]
            ELSE LET m == MinOf(Tail(s)) IN IF s[1] < m THEN s[1] ELSE m

---------------------------------------------------------------------------
(* Dates *)

MinutesPerDay == 24 * 60
DayOf(date) == date \div MinutesPerDay
TimeOfDay(date) == date % MinutesPerDay
\* Date.prototype.getDay: 0 is Sunday, 6 is Saturday.
GetDay(date) == (DayOf(date) + 4) % 7
IsWeekend(date) == GetDay(date) = 0 \/ GetDay(date) = 6
\* Date.prototype.getTime, in milliseconds, modulo Modulus.
GetTimeMod(date) == MulQR(60 * 1000, date).r

---------------------------------------------------------------------------
(* Deterministic sequence generator *)

\* The state seededRandom leaves in this.seed; the value returned is that state
\* divided by Modulus.
seededRandom(s) ==
    AddQR(MulQR(Multiplier, s), [q |-> 0, r |-> Increment]).r

RECURSIVE DrawN(_, _)
\* The states left by n successive calls of seededRandom from state s.
DrawN(s, n) ==
    IF n = 0 THEN <<>>
    ELSE LET s1 == seededRandom(s) IN <<s1>> \o DrawN(s1, n - 1)

\* String.prototype.charCodeAt(0) of the strategy ids the model uses.
CharCode0(id) ==
    CASE id = "a" -> 97
      [] id = "b" -> 98
      [] id = "c" -> 99
      [] OTHER -> 120

RECURSIVE strategyHash(_)
strategyHash(ss) ==
    IF ss = <<>> THEN 0
    ELSE CharCode0(ss[Len(ss)].id) + Len(ss[Len(ss)].tickers)
         + strategyHash(SubSeq(ss, 1, Len(ss) - 1))

createSeed(ss, start, end, cap) ==
    LET dateHash == AddQR([q |-> 0, r |-> GetTimeMod(start)],
                          [q |-> 0, r |-> GetTimeMod(end)])
    IN  AddQR(dateHash, [q |-> 0, r |-> (strategyHash(ss) + cap) % Modulus]).r

---------------------------------------------------------------------------
(* Market bars *)

\* A PolygonBar: t in minutes, c in cents, v in shares (o, h, l are never read).
Bar(t, c, v) == [t |-> t, c |-> c, v |-> v]

BaseClose == 10 * 100 - 10
BaseVolume == 100 * 1000
SessionOpen == 9 * 60 + 30

\* The bars of one day of a response of the source: `shape.prefix` quiet bars
\* followed by the bars of `shape.tail`, one bar a minute from the session open.
DayBars(shape, day) ==
    [k \in 1..(shape.prefix + Len(shape.tail)) |->
        IF k <= shape.prefix
        THEN Bar(day * MinutesPerDay + SessionOpen + k - 1, BaseClose, BaseVolume)
        ELSE Bar(day * MinutesPerDay + SessionOpen + k - 1,
                 shape.tail[k - shape.prefix].c, shape.tail[k - shape.prefix].v)]

RECURSIVE BarsFromTo(_, _, _)
\* data.results of a response: the shape on every weekday from day `from` to `to`.
BarsFromTo(shape, from, to) ==
    IF from > to THEN <<>>
    ELSE (IF IsWeekend(from * MinutesPerDay) THEN <<>> ELSE DayBars(shape, from))
         \o BarsFromTo(shape, from + 1, to)

---------------------------------------------------------------------------
(* Strategy rule evaluator *)

MinLookback == 20
DefaultVolumeThreshold == 100000
DefaultStopLoss == 2
DefaultTakeProfit == 3
DefaultMaxHoldTime == 60
DefaultPositionSize == 20
\* 0.001 dollars
DefaultCommission == UnitsPerDollar \div 1000
\* 0.01 dollars
Spread == UnitsPerDollar \div 100

\* data[index] of the code (0-based) is data[index + 1] here.
At(data, index) == data[index + 1]

microscalpingEntry(data, index) ==
    LET current == At(data, index)
        prev == At(data, index - 1)
    IN  \* current.v / prev.v > 1.5
        2 * current.v > 3 * prev.v /\ current.c > prev.c

\* The momentum rule without its test of the close.
momentumEntryVolumeOnly(data, index) ==
    IF index < 5 THEN FALSE
    ELSE 25 * At(data, index).v
           > 6 * SumOf([k \in 1..5 |-> At(data, index - 6 + k).v])

momentumEntry(data, index) ==
    IF index < 5 THEN FALSE
    ELSE LET current == At(data, index)
             volumes == [k \in 1..5 |-> At(data, index - 6 + k).v]
         IN  \* current.v > (sum / 5) * 1.2
             25 * current.v > 6 * SumOf(volumes)
             /\ current.c > At(data, index - 1).c

meanReversionEntry(data, index) ==
    IF index < 20 THEN FALSE
    ELSE LET current == At(data, index)
             closes == [k \in 1..20 |-> At(data, index - 21 + k).c]
         IN  \* current.c < (sum / 20) * 0.98
             2000 * current.c < 98 * SumOf(closes)

Abs(x) == IF x < 0 THEN -x ELSE x

\* The entry test with the momentum rule for the types without a rule.
shouldEnterByDefault(strategy, data, index) ==
    IF index < MinLookback THEN FALSE
    ELSE LET params == strategy.parameters
             currentBar == At(data, index)
             prevClose == At(data, index - 1).c
         IN  IF currentBar.v < OrElse(params.volumeThreshold, DefaultVolumeThreshold)
             THEN FALSE
             ELSE IF 1000 * Abs(currentBar.c - prevClose)
                       < prevClose * OrElse(params.priceChangeThreshold, 1)
             THEN FALSE
             ELSE CASE strategy.type = "microscalping" -> microscalpingEntry(data, index)
                    [] strategy.type = "mean-reversion" -> meanReversionEntry(data, index)
                    [] OTHER -> momentumEntry(data, index)

\* The entry test with a lookback one bar short.
shouldEnterOneEarly(strategy, data, index) ==
    IF index < MinLookback - 1 THEN FALSE
    ELSE LET params == strategy.parameters
             currentBar == At(data, index)
             prevClose == At(data, index - 1).c
         IN  IF currentBar.v < OrElse(params.volumeThreshold, DefaultVolumeThreshold)
             THEN FALSE
             ELSE IF 1000 * Abs(currentBar.c - prevClose)
                       < prevClose * OrElse(params.priceChangeThreshold, 1)
             THEN FALSE
             ELSE CASE strategy.type = "microscalping" -> microscalpingEntry(data, index)
                    [] strategy.type = "momentum" -> momentumEntry(data, index)
                    [] strategy.type = "mean-reversion" -> meanReversionEntry(data, index)
                    [] OTHER -> FALSE

\* shouldEnter (lines 920-948)
shouldEnter(strategy, data, index) ==
    IF index < MinLookback THEN FALSE
    ELSE LET params == strategy.parameters
             currentBar == At(data, index)
             prevClose == At(data, index - 1).c
         IN  IF currentBar.v < OrElse(params.volumeThreshold, DefaultVolumeThreshold)
             THEN FALSE
             \* |priceChange| < (priceChangeThreshold || 0.1) / 100, the threshold
             \* held in tenths of a percent
             ELSE IF 1000 * Abs(currentBar.c - prevClose)
                       < prevClose * OrElse(params.priceChangeThreshold, 1)
             THEN FALSE
             ELSE CASE strategy.type = "microscalping" -> microscalpingEntry(data, index)
                    [] strategy.type = "momentum" -> momentumEntry(data, index)
                    [] strategy.type = "mean-reversion" -> meanReversionEntry(data, index)
                    [] OTHER -> FALSE

\* The exit test with the time-based exit tried first.
shouldExitTimeFirst(strategy, position, currentBar, currentTime) ==
    LET params == strategy.parameters
        currentPrice == currentBar.c * UnitsPerCent
        entryPrice == position.entryPrice
        holdTime == currentTime - position.entryTime
    IN  IF params.timeBasedExit
           /\ holdTime >= OrElse(params.maxHoldTime, DefaultMaxHoldTime)
        THEN "time_exit"
        ELSE IF 100 * currentPrice
                  <= entryPrice * (100 - OrElse(params.stopLoss, DefaultStopLoss))
        THEN "stop_loss"
        ELSE IF 100 * currentPrice
                  >= entryPrice * (100 + OrElse(params.takeProfit, DefaultTakeProfit))
        THEN "take_profit"
        ELSE "none"

\* shouldExit (lines 950-984): the reason it sets when it returns true, "none"
\* when it returns false.
shouldExit(strategy, position, currentBar, currentTime) ==
    LET params == strategy.parameters
        currentPrice == currentBar.c * UnitsPerCent
        entryPrice == position.entryPrice
        holdTime == currentTime - position.entryTime
    IN  \* currentPrice <= entryPrice * (1 - stopLoss / 100)
        IF 100 * currentPrice <= entryPrice * (100 - OrElse(params.stopLoss, DefaultStopLoss))
        THEN "stop_loss"
        \* currentPrice >= entryPrice * (1 + takeProfit / 100)
        ELSE IF 100 * currentPrice
                  >= entryPrice * (100 + OrElse(params.takeProfit, DefaultTakeProfit))
        THEN "take_profit"
        ELSE IF params.timeBasedExit
                /\ holdTime >= OrElse(params.maxHoldTime, DefaultMaxHoldTime)
        THEN "time_exit"
        \* params.exitConditions.trailingStop: the branch is empty
        ELSE "none"

---------------------------------------------------------------------------
(* Trade simulator *)

calculatePositionSize(equity, positionSizePercent, price) ==
    \* Math.floor(equity * (percent / 100) / price), price in cents
    (equity * positionSizePercent) \div (100 * price * UnitsPerCent)

calculateEntryPrice(bar, side) ==
    IF side = "buy" THEN bar.c * UnitsPerCent + Spread \div 2
    ELSE bar.c * UnitsPerCent - Spread \div 2

calculateSlippage(price, quantity) == (price * quantity) \div 1000

\* pnl / (entryPrice * quantity) * 100
PnlPercent(pnl, notional) ==
    Div(100, pnl, notional)

\* The position object built on an entry signal (lines 868-882).
OpenPosition(strategy, ticker, bar, currentEquity) ==
    LET params == strategy.parameters
        positionSize == calculatePositionSize(
            currentEquity, OrElse(params.positionSize, DefaultPositionSize), bar.c)
        entryPrice == calculateEntryPrice(bar, "buy")
    IN  [ticker |-> ticker, entryTime |-> bar.t, exitTime |-> bar.t,
         entryPrice |-> entryPrice, exitPrice |-> 0, quantity |-> positionSize,
         pnl |-> 0, pnlPercent |-> Zero,
         fees |-> OrElse(params.commissionPerTrade, DefaultCommission),
         slippage |-> calculateSlippage(entryPrice, positionSize),
         reason |-> "time_exit", holdTime |-> 0]

\* The position closed with a pnl that leaves the slippage out.
ClosePositionNoSlippage(position, bar, reason) ==
    LET exitPrice == calculateEntryPrice(bar, "sell")
        pnl == (exitPrice - position.entryPrice) * position.quantity - position.fees
    IN  [position EXCEPT !.exitTime = bar.t, !.exitPrice = exitPrice,
                         !.holdTime = bar.t - position.entryTime,
                         !.pnl = pnl,
                         !.pnlPercent = PnlPercent(pnl, position.entryPrice * position.quantity),
                         !.reason = reason]

\* The position closed on `bar` with `reason` (lines 887-894 and 903-912).
ClosePosition(position, bar, reason) ==
    LET exitPrice == calculateEntryPrice(bar, "sell")
        pnl == (exitPrice - position.entryPrice) * position.quantity
               - position.fees - position.slippage
    IN  [position EXCEPT !.exitTime = bar.t, !.exitPrice = exitPrice,
                         !.holdTime = bar.t - position.entryTime,
                         !.pnl = pnl,
                         !.pnlPercent = PnlPercent(pnl, position.entryPrice * position.quantity),
                         !.reason = reason]

\* The locals of simulateTickerTrading before the first bar: position is a
\* sequence of at most one element (<<>> is null); entries and exits record
\* the index of the bar of each entry taken and of each trade pushed.
SimStart == [position |-> <<>>, trades |-> <<>>, entries |-> <<>>, exits |-> <<>>]

\* The entry test without its !position conjunct.
EntryTakenWhileOpen(strategy, dayData, i, st) == shouldEnter(strategy, dayData, i)

\* Whether the entry branch of the loop body is taken (line 864).
EntryTaken(strategy, dayData, i, st) ==
    st.position = <<>> /\ shouldEnter(strategy, dayData, i)

\* if (!position && this.shouldEnter(...)) of the loop body (lines 864-883).
EntryStep(strategy, ticker, dayData, i, currentEquity, st) ==
    IF EntryTaken(strategy, dayData, i, st)
    THEN [st EXCEPT !.position = <<OpenPosition(strategy, ticker, At(dayData, i),
                                                currentEquity)>>,
                    !.entries = Append(@, i)]
    ELSE st

\* The body of if (position && this.shouldExit(...)) when shouldExit returned
\* `reason` (lines 887-897).
ExitWith(dayData, i, st, reason) ==
    IF reason # "none"
    THEN [st EXCEPT !.position = <<>>,
                    !.trades = Append(@, ClosePosition(st.position[1], At(dayData, i),
                                                       reason)),
                    !.exits = Append(@, i)]
    ELSE st

\* if (position && this.shouldExit(...)) of the loop body (lines 886-898).
ExitStep(strategy, dayData, i, st) ==
    IF st.position = <<>> THEN st
    ELSE ExitWith(dayData, i, st,
                  shouldExit(strategy, st.position[1], At(dayData, i), At(dayData, i).t))

\* One iteration of the bar loop (lines 859-899), on bar i (0-based).
BarStep(strategy, ticker, dayData, i, currentEquity, st) ==
    ExitStep(strategy, dayData, i,
             EntryStep(strategy, ticker, dayData, i, currentEquity, st))

\* The end of the loop without the close at market close.
KeepRemaining(dayData, st) == st

\* The close at market close after the loop (lines 901-915).
CloseRemaining(dayData, st) ==
    IF st.position # <<>>
    THEN LET lastBar == At(dayData, Len(dayData) - 1)
         IN  [position |-> <<>>,
              trades |-> Append(st.trades, ClosePosition(st.position[1], lastBar, "time_exit")),
              entries |-> st.entries, exits |-> Append(st.exits, Len(dayData) - 1)]
    ELSE st

RECURSIVE BarLoop(_, _, _, _, _, _)
\* for (let i = 0; i < dayData.length; i++), from iteration i in state st.  The
\* second test holds of no state (position is null or one object): it has the
\* state of an iteration computed before the next iteration starts.
BarLoop(strategy, ticker, dayData, i, currentEquity, st) ==
    IF i >= Len(dayData) \/ Len(st.position) > 1 THEN st
    ELSE BarLoop(strategy, ticker, dayData, i + 1, currentEquity,
                 BarStep(strategy, ticker, dayData, i, currentEquity, st))

simulateTickerTrading(strategy, ticker, dayData, currentEquity) ==
    CloseRemaining(dayData,
        BarLoop(strategy, ticker, dayData, 0, currentEquity, SimStart)).trades

isMarketOpen(date, tradingHours) ==
    IF IsWeekend(date) THEN FALSE
    ELSE TimeOfDay(date) >= tradingHours.start /\ TimeOfDay(date) <= tradingHours.end

getDayData(data, date) == SelectSeq(data, LAMBDA bar : DayOf(bar.t) = DayOf(date))

---------------------------------------------------------------------------
(* Performance analyzer *)

Money(units) == [kind |-> "money", units |-> units]
Real(name) == [kind |-> "real", name |-> name]
Draw(name, draws) == [kind |-> "draw", name |-> name, draws |-> draws]

\* Whether a metric is the number 0.
IsZeroMetric(x) ==
    \/ x.kind = "rat" /\ (x.num = 0 \/ x.scale = 0)
    \/ x.kind = "money" /\ x.units = 0

Pnls(trades) == [k \in 1..Len(trades) |-> trades[k].pnl]

getEmptyMetrics ==
    [totalReturn |-> Zero, annualizedReturn |-> Zero, sharpeRatio |-> Zero,
     maxDrawdown |-> Zero, winRate |-> Zero, profitFactor |-> Zero,
     totalTrades |-> 0, avgTradeReturn |-> Zero, bestTrade |-> Zero,
     worstTrade |-> Zero, avgHoldTime |-> Zero, volatility |-> Zero,
     calmarRatio |-> Zero, sortinoRatio |-> Zero]

\* The quotient without its guard.
ProfitFactorUnguarded(grossProfit, grossLoss) == Div(1, grossProfit, grossLoss)

\* grossLoss > 0 ? grossProfit / grossLoss : 0 (lines 1159-1161), money in units.
ProfitFactor(grossProfit, grossLoss) ==
    IF grossLoss > 0 THEN Rat(1, grossProfit, grossLoss) ELSE Zero

\* The comparison that keeps the first drawdown found.
DeeperThanNone(best, peak, equity) ==
    best.kind = "rat" /\ best.num = 0 /\ equity < peak

\* drawdown > maxDrawdown (line 1176) for drawdown = (peak - equity) / peak * 100
\* with peak >= 0: a quotient by 0 is NaN (never greater) or +Infinity.
Deeper(best, peak, equity) ==
    IF best.kind # "rat" THEN FALSE
    ELSE IF peak = 0 THEN equity < 0
    ELSE ProductLess(best.num, peak, peak - equity, best.den)

RECURSIVE DrawdownLoop(_, _, _, _)
\* The loop of lines 1171-1179: peak in units, maxDrawdown = 100 * best.num / best.den.
DrawdownLoop(equityCurve, k, peak, best) ==
    IF k > Len(equityCurve) THEN best
    ELSE LET equity == equityCurve[k].equity.units
             peak1 == IF equity > peak THEN equity ELSE peak
         IN  DrawdownLoop(equityCurve, k + 1, peak1,
                          IF Deeper(best, peak1, equity)
                          THEN Div(100, peak1 - equity, peak1) ELSE best)

MaxDrawdown(equityCurve, capitalUnits) ==
    DrawdownLoop(equityCurve, 1, capitalUnits, Zero)

DaysPerYear == 365

\* days > 0 ? (Math.pow(1 + totalReturnPercent / 100, 365 / days) - 1) * 100 : 0
\* (lines 1191-1192).  Math.pow of a negative base and a non-integer exponent
\* is NaN; the overflow of a large power to Infinity is not modelled.  For a
\* capital of 0 totalReturnPercent is NaN or infinite, and so is the power.
AnnualizedReturn(finalEquity, capitalUnits, start, end) ==
    IF end - start > 0
    THEN IF capitalUnits = 0
         THEN (IF finalEquity = 0 THEN NaN ELSE Infinity)
         ELSE IF finalEquity < 0 /\ (DaysPerYear * MinutesPerDay) % (end - start) # 0
         THEN NaN
         ELSE Real("annualizedReturn")
    ELSE Zero

\* maxDrawdown > 0 ? annualizedReturn / maxDrawdown : 0 (line 1195)
CalmarRatio(annualizedReturn, maxDrawdown) ==
    IF IsZeroMetric(maxDrawdown) THEN Zero
    ELSE IF annualizedReturn.kind = "NaN" THEN NaN
    ELSE IF annualizedReturn.kind = "Infinity"
    THEN (IF maxDrawdown.kind = "Infinity" THEN NaN ELSE Infinity)
    ELSE IF maxDrawdown.kind = "Infinity" THEN Zero
    ELSE Real("calmarRatio")

\* The body of calculatePerformanceMetrics after its guard (lines 1152-1219).
ComputeMetrics(trades, equityCurve, capitalUnits, start, end) ==
    LET finalEquity == IF Len(equityCurve) > 0
                       THEN equityCurve[Len(equityCurve)].equity.units
                       ELSE capitalUnits
        totalReturn == finalEquity - capitalUnits
        pnls == Pnls(trades)
        winning == SelectSeq(pnls, LAMBDA x : x > 0)
        losing == SelectSeq(pnls, LAMBDA x : x < 0)
        grossProfit == SumOf(winning)
        grossLoss == Abs(SumOf(losing))
        maxDrawdown == MaxDrawdown(equityCurve, capitalUnits)
        equities == [k \in 1..Len(equityCurve) |-> equityCurve[k].equity.units]
        \* returns.length is 0 for an empty curve: avgReturn and volatility are
        \* 0 / 0, and volatility > 0 is false
        noReturns == Len(equityCurve) = 0
        \* variance is 0 exactly when all the returns are equal
        flat == \A k \in 1..Len(equities) : equities[k] = equities[1]
        negativeReturns == SelectSeq(equities, LAMBDA e : e < capitalUnits)
        annualizedReturn == AnnualizedReturn(finalEquity, capitalUnits, start, end)
        \* with a capital of 0 every return is NaN or infinite: so are their
        \* mean and their deviations
        unbounded == capitalUnits = 0
    IN  [totalReturn |-> Div(100, totalReturn, capitalUnits),
         annualizedReturn |-> annualizedReturn,
         sharpeRatio |-> IF ~noReturns /\ ~flat /\ ~unbounded THEN Real("sharpeRatio")
                         ELSE Zero,
         maxDrawdown |-> maxDrawdown,
         winRate |-> Div(100, Len(winning), Len(trades)),
         profitFactor |-> ProfitFactor(grossProfit, grossLoss),
         totalTrades |-> Len(trades),
         avgTradeReturn |-> Div(1, SumOf(pnls), Len(trades)),
         \* Math.max() and Math.min() of no argument are -Infinity and Infinity
         bestTrade |-> IF Len(pnls) = 0 THEN Infinity ELSE Money(MaxOf(pnls)),
         worstTrade |-> IF Len(pnls) = 0 THEN Infinity ELSE Money(MinOf(pnls)),
         avgHoldTime |-> Div(1, SumOf([k \in 1..Len(trades) |-> trades[k].holdTime]),
                             Len(trades)),
         volatility |-> IF noReturns \/ unbounded THEN NaN
                        ELSE IF ~flat THEN Real("volatility") ELSE Zero,
         calmarRatio |-> CalmarRatio(annualizedReturn, maxDrawdown),
         sortinoRatio |-> IF Len(negativeReturns) > 0
                          THEN (IF unbounded THEN NaN ELSE Real("sortinoRatio"))
                          ELSE Zero]

\* The metrics without the guard on an empty trade log.
MetricsUnguarded(trades, equityCurve, capitalUnits, start, end) ==
    ComputeMetrics(trades, equityCurve, capitalUnits, start, end)

\* calculatePerformanceMetrics of lines 1132-1220, the definition in force (the
\* later of the two methods of that name in the class body).
calculatePerformanceMetrics(trades, equityCurve, capitalUnits, start, end) ==
    IF Len(trades) = 0 THEN getEmptyMetrics
    ELSE ComputeMetrics(trades, equityCurve, capitalUnits, start, end)

MetricFields ==
    {"totalReturn", "annualizedReturn", "sharpeRatio", "maxDrawdown", "winRate",
     "profitFactor", "avgTradeReturn", "bestTrade", "worstTrade", "avgHoldTime",
     "volatility", "calmarRatio", "sortinoRatio"}

---------------------------------------------------------------------------
(* Orchestrator: real-data path *)

RECURSIVE TradingDaysFrom(_, _)
\* The while loop of getTradingDays (lines 1231-1237).
TradingDaysFrom(currentDate, end) ==
    IF currentDate <= end
    THEN (IF GetDay(currentDate) # 0 /\ GetDay(currentDate) # 6
          THEN <<currentDate>> ELSE <<>>)
         \o TradingDaysFrom(currentDate + MinutesPerDay, end)
    ELSE <<>>

getTradingDays(start, end) == TradingDaysFrom(start, end)

\* The bars the Map tickerData holds for an entry: the response of the source
\* to the request for [start, end].
EntryBars(entry, start, end) == BarsFromTo(entry.shape, DayOf(start), DayOf(end))

RECURSIVE TickerLoop(_, _, _, _, _, _, _)
\* The for loop of simulateTradingDay over tickerData.entries() (lines 829-843).
TickerLoop(strategy, data, k, date, currentEquity, start, end) ==
    IF k > Len(data) THEN <<>>
    ELSE LET dayData == getDayData(EntryBars(data[k], start, end), date)
         IN  (IF Len(dayData) = 0 THEN <<>>
              ELSE simulateTickerTrading(strategy, data[k].ticker, dayData, currentEquity))
             \o TickerLoop(strategy, data, k + 1, date, currentEquity, start, end)

simulateTradingDay(strategy, data, date, currentEquity, start, end) ==
    IF ~isMarketOpen(date, strategy.parameters.tradingHours) THEN <<>>
    ELSE TickerLoop(strategy, data, 1, date, currentEquity, start, end)

\* The locals of performRealBacktest before its loop (lines 753-758); day is
\* the index of the trading day the loop is at.
RunStart(capitalUnits) ==
    [day |-> 1, trades |-> <<>>, equityCurve |-> <<>>, currentEquity |-> capitalUnits]

\* The rest of an iteration with the equity restarted from the capital.
DayEndFromCapital(acc, date, dayTrades, capitalUnits) ==
    LET currentEquity == capitalUnits + SumOf(Pnls(dayTrades))
    IN  [day |-> acc.day + 1,
         trades |-> acc.trades \o dayTrades,
         equityCurve |-> Append(acc.equityCurve,
             [date |-> date,
              equity |-> Money(currentEquity),
              return |-> Div(100, currentEquity - capitalUnits, capitalUnits)]),
         currentEquity |-> currentEquity]

\* The rest of an iteration of the loop of performRealBacktest once
\* simulateTradingDay has returned dayTrades (lines 763-775).
DayEnd(acc, date, dayTrades, capitalUnits) ==
    LET currentEquity == acc.currentEquity + SumOf(Pnls(dayTrades))
    IN  [day |-> acc.day + 1,
         trades |-> acc.trades \o dayTrades,
         equityCurve |-> Append(acc.equityCurve,
             [date |-> date,
              equity |-> Money(currentEquity),
              return |-> Div(100, currentEquity - capitalUnits, capitalUnits)]),
         currentEquity |-> currentEquity]

\* An iteration of the loop over the trading days that does not advance.
DayStepStuck(strategy, data, tradingDays, acc, capitalUnits, start, end) == acc

\* One iteration of the loop of performRealBacktest over the trading days
\* (lines 761-776).
DayStep(strategy, data, tradingDays, acc, capitalUnits, start, end) ==
    DayEnd(acc, tradingDays[acc.day],
           simulateTradingDay(strategy, data, tradingDays[acc.day], acc.currentEquity,
                              start, end),
           capitalUnits)

\* Whether simulateTradingDay throws: it reads params.tradingHours of a
\* strategy object without parameters (lines 818-821).
SimulateTradingDayThrows(strategy) == ~strategy.parameters.defined

\* What performRealBacktest returns after its loop (lines 778-797).
RealResult(strategy, acc, cap, start, end) ==
    [strategyId |-> strategy.id, capital |-> cap,
     startDate |-> start, endDate |-> end,
     performance |-> calculatePerformanceMetrics(acc.trades, acc.equityCurve,
                                                 cap * UnitsPerDollar, start, end),
     trades |-> acc.trades, equityCurve |-> acc.equityCurve]

---------------------------------------------------------------------------
(* Orchestrator: synthetic fallback *)

CeilDiv(a, b) == -((-a) \div b)

\* The position of a strategy type in the object literals of
\* getStrategyBaseReturn and getStrategyHoldTime; 0 for a type they lack.
TypeIndex(type) ==
    CASE type = "microscalping" -> 1
      [] type = "momentum" -> 2
      [] type = "mean-reversion" -> 3
      [] type = "breakout" -> 4
      [] type = "gap-and-go" -> 5
      [] type = "news-scalping" -> 6
      [] OTHER -> 0

\* The curve generateMockEquityCurve builds from its draws, and the state the
\* generator is left in: the equity of a point is the product over the draws so
\* far.
MockCurve(s, draws, start) ==
    [points |-> [k \in 1..Len(draws) |->
                    [date |-> start + (k - 1) * MinutesPerDay,
                     equity |-> Draw("equity", SubSeq(draws, 1, k)),
                     return |-> Draw("return", SubSeq(draws, 1, k))]],
     seed |-> IF draws = <<>> THEN s ELSE draws[Len(draws)]]

\* generateMockEquityCurve (lines 1312-1333): one point for each i in 0..days,
\* each from one more draw.
generateMockEquityCurve(s, start, end) ==
    MockCurve(s, IF CeilDiv(end - start, MinutesPerDay) >= 0
                 THEN DrawN(s, CeilDiv(end - start, MinutesPerDay) + 1)
                 ELSE <<>>,
              start)

\* Math.floor((50 + r * 200) * sessionMultiplier), r the draw in state d.
MockTotalTrades(d, sessionMode) ==
    IF sessionMode = "single" THEN 5 + MulQR(20, d).q ELSE 50 + MulQR(200, d).q

\* The result generateMockBacktestResult builds from its draws d, the trade
\* count and the curve.
MockResult(strategy, d, totalTrades, curve, cap, start, end) ==
    LET t == TypeIndex(strategy.type)
        base == IF t = 0 THEN <<>> ELSE <<d[t]>>
        hold == IF t = 0 THEN <<>> ELSE <<d[13 + t]>>
    IN  [result |->
            [strategyId |-> strategy.id, capital |-> cap,
             startDate |-> start, endDate |-> end,
             performance |->
                [totalReturn |-> Draw("totalReturn", base),
                 annualizedReturn |-> Draw("annualizedReturn", base),
                 sharpeRatio |-> Draw("sharpeRatio", base \o <<d[7]>>),
                 maxDrawdown |-> Draw("maxDrawdown", <<d[8]>>),
                 winRate |-> Draw("winRate", <<d[9]>>),
                 profitFactor |-> Draw("profitFactor", <<d[11]>>),
                 totalTrades |-> totalTrades,
                 avgTradeReturn |-> IF totalTrades = 0 THEN Infinity
                                    ELSE Draw("avgTradeReturn", base \o <<d[10]>>),
                 bestTrade |-> Draw("bestTrade", <<d[12]>>),
                 worstTrade |-> Draw("worstTrade", <<d[13]>>),
                 avgHoldTime |-> Draw("avgHoldTime", hold),
                 volatility |-> Draw("volatility", <<d[7]>>),
                 calmarRatio |-> Draw("calmarRatio", base \o <<d[8]>>),
                 sortinoRatio |-> Draw("sortinoRatio", base \o <<d[7]>>)],
             trades |-> <<>>,
             equityCurve |-> curve.points],
         seed |-> curve.seed]

\* The draws of generateMockBacktestResult before those of the curve, in the
\* order of the calls: 6 of getStrategyBaseReturn, volatility, maxDrawdown,
\* winRate, totalTrades, profitFactor, bestTrade, worstTrade, 6 of
\* getStrategyHoldTime.
MockDraws == 19

MockFrom(strategy, d, cap, start, end, sessionMode) ==
    MockResult(strategy, d, MockTotalTrades(d[10], sessionMode),
               generateMockEquityCurve(d[MockDraws], start, end), cap, start, end)

\* generateMockBacktestResult (lines 1242-1284) from generator state s: the
\* result and the state the generator is left in.
generateMockBacktestResult(strategy, s, cap, start, end, sessionMode) ==
    MockFrom(strategy, DrawN(s, MockDraws), cap, start, end, sessionMode)

---------------------------------------------------------------------------
(* Inputs of a run *)

Jan1 == 19000 + 723        \* 2024-01-01, a Monday, in days since 1970-01-01
DateAt(day, minutes) == day * MinutesPerDay + minutes

\* <<startDate, endDate>>: one Friday; Friday to Sunday; Friday to Monday;
\* Thursday to Friday at midnight; a weekend.
DateRanges ==
    {<<DateAt(Jan1 + 4, 600), DateAt(Jan1 + 4, 600)>>,
     <<DateAt(Jan1 + 4, 600), DateAt(Jan1 + 6, 600)>>,
     <<DateAt(Jan1 + 4, 600), DateAt(Jan1 + 7, 600)>>,
     <<DateAt(Jan1 + 3, 0), DateAt(Jan1 + 4, 0)>>,
     <<DateAt(Jan1 + 5, 600), DateAt(Jan1 + 6, 600)>>}

Capitals == {50}
Modes == {"single", "multi"}

\* StrategyParameters (strategy.ts 24-59): riskPerTrade, stopLossDollar and
\* takeProfitDollar are held in cents, slippageBuffer in hundredths of a
\* percent; 0 stands for an optional field that is left out.
Parameters(positionSize) ==
    [defined |-> TRUE, positionSize |-> positionSize, riskPerTrade |-> 100 * 100,
     maxDailyTrades |-> 10,
     stopLoss |-> 2, stopLossDollar |-> 0, stopLossATR |-> 0,
     takeProfit |-> 3, takeProfitDollar |-> 0,
     commissionPerTrade |-> 0, slippageBuffer |-> 10,
     timeBasedExit |-> FALSE, maxHoldTime |-> 60,
     trailingStop |-> FALSE, volumeThreshold |-> 100000, priceChangeThreshold |-> 1,
     tradingHours |-> [start |-> 9 * 60 + 30, end |-> 16 * 60]]

\* A strategy object that lacks its parameters.
NoParameters == [Parameters(20) EXCEPT !.defined = FALSE]

Strategy(id, type, tickers, parameters) ==
    [id |-> id, type |-> type, tickers |-> tickers, parameters |-> parameters]

StrategyLists ==
    {<<>>,
     <<Strategy("a", "momentum", <<"AAPL", "MSFT">>, Parameters(20))>>,
     <<Strategy("b", "breakout", <<"AAPL">>, Parameters(20)),
       Strategy("a", "momentum", <<"AAPL", "MSFT">>, Parameters(20))>>,
     <<Strategy("c", "momentum", <<"AAPL">>, Parameters(100))>>,
     <<Strategy("d", "momentum", <<"AAPL">>, NoParameters),
       Strategy("b", "breakout", <<"AAPL">>, Parameters(20))>>}

Shape(prefix, tail) == [prefix |-> prefix, tail |-> tail]
BarCV(c, v) == [c |-> c, v |-> v]
\* A bar that passes the pre-filters and the momentum rule after quiet bars.
Surge == BarCV(BaseClose + 10, 2 * BaseVolume)

\* The responses with results the model draws from: no bars; a session too
\* short for an entry; quiet bars; an entry followed by a rise past the take
\* profit, by a small move (left open until the last bar), by a collapse.
Shapes ==
    {Shape(0, <<>>),
     Shape(5, <<>>),
     Shape(21, <<>>),
     Shape(20, <<Surge, BarCV(BaseClose + 50, BaseVolume)>>),
     Shape(20, <<Surge, BarCV(BaseClose + 11, BaseVolume)>>),
     Shape(20, <<Surge, BarCV(1, BaseVolume)>>)}

\* Responses of the source that make fetchMinuteData throw at once: a status
\* that is not ok, a rejected fetch, a body whose status is not 'OK'.
FetchErrors == {"http_error", "network_error", "api_error"}

MaxRetries == 3
\* Bound on the 429 responses of one run.
MaxRateLimited == 4

Engines == {1, 2}

---------------------------------------------------------------------------
(* Orchestrator: runBacktest, backtestStrategy, fetchTickerData, fetchMinuteData *)
(*                                                                           *)
(* Two engine instances are constructed from the same inputs and run side    *)
(* by side against the same responses of the source; instance e has its      *)
(* results in results[e] and its generator state in seed[SeedCell(e)].       *)

\* One generator state shared by the instances, as a module-level seed would be.
SharedSeedCell(e) == 1

\* this.seed is a field of the instance (line 667).
SeedCell(e) == e

\* The catch of fetchTickerData returns [] (lines 805-808).
fetchTickerDataCatches == TRUE
\* The catch of backtestStrategy returns the mock result (lines 743-747).
backtestStrategyCatches == TRUE

\* The retry test off by one.
MayRetryInclusive(count) == count <= MaxRetries

\* retryCount < 3 (line 64)
MayRetry(count) == count < MaxRetries

RECURSIVE Pow2(_)
Pow2(n) == IF n = 0 THEN 1 ELSE 2 * Pow2(n - 1)
\* Math.pow(2, retryCount) * 1000 (line 65)
WaitTime(count) == Pow2(count) * 1000

Idle == [active |-> FALSE]

\* The state the constructor (lines 669-677) leaves, whatever its arguments:
\* it stores them unchecked and derives the seed.
Constructed ==
    /\ seed = [e \in Engines |-> createSeed(strategies, startDate, endDate, capital)]
    /\ pc = "strategy"
    /\ si = 1
    /\ ti = 1
    /\ retryCount = 0
    /\ tickerData = <<>>
    /\ run = RunStart(0)
    /\ results = [e \in Engines |-> <<>>]
    /\ returned = [e \in Engines |-> <<>>]
    /\ waits = <<>>
    /\ attempts = 0
    /\ lastResponse = "none"
    /\ rateLimited = 0
    /\ raised = <<>>
    /\ paths = <<>>
    /\ fetched = <<>>
    /\ again = <<>>
    /\ sim = Idle
    /\ analysis = Idle
    /\ gen = Idle
    /\ cal = Idle

Init ==
    /\ capital \in Capitals
    /\ strategies \in StrategyLists
    /\ \E range \in DateRanges : startDate = range[1] /\ endDate = range[2]
    /\ mode \in Modes
    /\ Constructed

inputs == <<capital, strategies, startDate, endDate, mode>>
other == <<sim, analysis, gen, again, cal>>
TradingDays == getTradingDays(startDate, endDate)

CurrentStrategy == strategies[si]

\* The results collected in reverse: unshift for push.
PrependResults(rs, seeds, path) ==
    /\ results' = [e \in Engines |-> <<rs[e]>> \o results[e]]
    /\ seed' = seeds
    /\ paths' = Append(paths, path)
    /\ fetched' = Append(fetched, tickerData)
    /\ si' = si + 1
    /\ pc' = "strategy"

\* F(x), with the call evaluated once: TLC evaluates an operator argument anew
\* at each of its uses while it computes ENABLED, and BagOfAll applies F to the
\* value of x.
Once(F(_), x) == CHOOSE r \in BagToSet(BagOfAll(F, SetToBag({x}))) : TRUE

\* results.push(result) and the next iteration of the loop of runBacktest, for
\* results rs (one per instance) obtained along `path`, leaving the generator
\* states as in `seeds`.
PushResults(rs, seeds, path) ==
    /\ results' = [e \in Engines |-> Append(results[e], rs[e])]
    /\ seed' = seeds
    /\ paths' = Append(paths, path)
    /\ fetched' = Append(fetched, tickerData)
    /\ si' = si + 1
    /\ pc' = "strategy"

\* Instance e returns this.generateMockBacktestResult(strategy): acc holds the
\* generator states and the results of the instances so far.
MockStep(acc, e, m) ==
    [seeds |-> [acc.seeds EXCEPT ![SeedCell(e)] = m.seed], rs |-> Append(acc.rs, m.result)]

MockOf(acc, e) ==
    MockStep(acc, e, generateMockBacktestResult(CurrentStrategy, acc.seeds[SeedCell(e)],
                                                capital, startDate, endDate, mode))

MockOfBoth(acc) == MockOf(MockOf(acc, 1), 2)

PushMock(acc) == PushResults(acc.rs, acc.seeds, "mock")

\* return this.generateMockBacktestResult(strategy), in each instance in turn.
ReturnMock == PushMock(Once(MockOfBoth, [seeds |-> seed, rs |-> <<>>]))

\* An exception reaches the try of backtestStrategy (lines 714-747).
ThrowInBacktestStrategy ==
    IF backtestStrategyCatches
    THEN ReturnMock
    ELSE /\ pc' = "thrown"
         /\ UNCHANGED <<results, seed, paths, fetched, si>>

\* for (const strategy of this.strategies): the loop is over.
Return ==
    /\ pc = "strategy"
    /\ si > Len(strategies)
    /\ returned' = results
    /\ pc' = "returned"
    /\ UNCHANGED <<inputs, seed, si, ti, retryCount, tickerData, run, results, waits,
                   attempts, lastResponse, rateLimited, raised, paths, fetched, other>>

\* backtestStrategy(strategy) is called and reaches its ticker loop.
BeginStrategy ==
    /\ pc = "strategy"
    /\ si <= Len(strategies)
    /\ tickerData' = <<>>
    /\ ti' = 1
    /\ retryCount' = 0
    /\ waits' = <<>>
    /\ attempts' = 0
    /\ raised' = Append(raised, [fetch |-> 0, simulate |-> FALSE, abandoned |-> <<>>])
    /\ pc' = IF Len(CurrentStrategy.tickers) = 0 THEN "simulate" ELSE "fetch"
    /\ UNCHANGED <<inputs, seed, si, run, results, returned, lastResponse, rateLimited,
                   paths, fetched, other>>

\* fetchMinuteData throws and the exception reaches fetchTickerData.
ThrowInFetch ==
    /\ raised' = [raised EXCEPT ![si].fetch = @ + 1,
                                ![si].abandoned = Append(@, CurrentStrategy.tickers[ti])]
    /\ IF fetchTickerDataCatches
       THEN /\ pc' = "pause"
            /\ UNCHANGED <<results, seed, paths, fetched, si>>
       ELSE ThrowInBacktestStrategy

\* The source answers 429 and the request is sent again after a delay.
RateLimitedRetry ==
    /\ pc = "fetch"
    /\ rateLimited < MaxRateLimited
    /\ MayRetry(retryCount)
    /\ attempts' = attempts + 1
    /\ lastResponse' = "rate_limited"
    /\ rateLimited' = rateLimited + 1
    /\ waits' = Append(waits, WaitTime(retryCount))
    /\ pc' = "backoff"
    /\ UNCHANGED <<inputs, seed, si, ti, retryCount, tickerData, run, results, returned,
                   raised, paths, fetched, other>>

\* await delay(waitTime) is over: fetchMinuteData(..., retryCount + 1).
BackoffElapsed ==
    /\ pc = "backoff"
    /\ retryCount' = retryCount + 1
    /\ pc' = "fetch"
    /\ UNCHANGED <<inputs, seed, si, ti, tickerData, run, results, returned, waits, attempts,
                   lastResponse, rateLimited, raised, paths, fetched, other>>

\* The source answers 429 when no retry is left: Error('Rate limited after ...').
RateLimitedGiveUp ==
    /\ pc = "fetch"
    /\ rateLimited < MaxRateLimited
    /\ ~MayRetry(retryCount)
    /\ attempts' = attempts + 1
    /\ lastResponse' = "rate_limited"
    /\ rateLimited' = rateLimited + 1
    /\ ThrowInFetch
    /\ UNCHANGED <<inputs, ti, retryCount, tickerData, run, returned, waits, other>>

\* The source fails otherwise: fetchMinuteData throws at once.
FetchFails ==
    /\ pc = "fetch"
    /\ \E error \in FetchErrors : lastResponse' = error
    /\ attempts' = attempts + 1
    /\ ThrowInFetch
    /\ UNCHANGED <<inputs, ti, retryCount, tickerData, run, returned, waits, rateLimited, other>>

\* The source answers 200 with status 'OK': return data.results || [], which
\* backtestStrategy stores when it holds a bar.
FetchSucceeds ==
    /\ pc = "fetch"
    /\ \E shape \in Shapes :
          LET data == BarsFromTo(shape, DayOf(startDate), DayOf(endDate))
          IN  tickerData' = IF Len(data) > 0
                            THEN Append(tickerData,
                                        [ticker |-> CurrentStrategy.tickers[ti],
                                         shape |-> shape])
                            ELSE tickerData
    /\ lastResponse' = "ok"
    /\ UNCHANGED run
    /\ attempts' = attempts + 1
    /\ pc' = "pause"
    /\ UNCHANGED <<inputs, seed, si, ti, retryCount, results, returned, waits,
                   rateLimited, raised, paths, fetched, other>>

\* The pause after a ticker with the loop left after the first ticker.
NextTickerLeavesLoop ==
    /\ pc = "pause"
    /\ ti' = ti + 1
    /\ retryCount' = 0
    /\ waits' = <<>>
    /\ attempts' = 0
    /\ lastResponse' = "none"
    /\ pc' = "simulate"
    /\ UNCHANGED <<inputs, seed, si, tickerData, run, results, returned,
                   rateLimited, raised, paths, fetched, other>>

\* The 100 ms pause after a ticker is over: the next ticker, or the end of the loop.
NextTicker ==
    /\ pc = "pause"
    /\ ti' = ti + 1
    /\ retryCount' = 0
    /\ waits' = <<>>
    /\ attempts' = 0
    /\ lastResponse' = "none"
    /\ pc' = IF ti + 1 > Len(CurrentStrategy.tickers) THEN "simulate" ELSE "fetch"
    /\ UNCHANGED <<inputs, seed, si, tickerData, run, results, returned,
                   rateLimited, raised, paths, fetched, other>>

\* tickerData.size === 0: the mock result (lines 735-738).
FallBackToMock ==
    /\ pc = "simulate"
    /\ Len(tickerData) = 0
    /\ ReturnMock
    /\ UNCHANGED <<inputs, ti, retryCount, tickerData, run, returned, waits, attempts,
                   lastResponse, rateLimited, raised, other>>

\* performRealBacktest is called (line 741).
BeginRealBacktest ==
    /\ pc = "simulate"
    /\ Len(tickerData) > 0
    /\ run' = RunStart(capital * UnitsPerDollar)
    /\ pc' = "day"
    /\ UNCHANGED <<inputs, seed, si, ti, retryCount, tickerData, results, returned, waits,
                   attempts, lastResponse, rateLimited, raised, paths, fetched, other>>

\* await this.simulateTradingDay(...) and the rest of the iteration.
SimulateDay ==
    /\ pc = "day"
    /\ run.day <= Len(TradingDays)
    /\ ~SimulateTradingDayThrows(CurrentStrategy)
    /\ run' = Once(LAMBDA acc : DayStep(CurrentStrategy, tickerData, TradingDays, acc,
                                        capital * UnitsPerDollar, startDate, endDate),
                   run)
    /\ UNCHANGED <<inputs, seed, pc, si, ti, retryCount, tickerData, results, returned,
                   waits, attempts, lastResponse, rateLimited, raised, paths, fetched,
                   other>>

\* simulateTradingDay throws.
SimulateDayFails ==
    /\ pc = "day"
    /\ run.day <= Len(TradingDays)
    /\ SimulateTradingDayThrows(CurrentStrategy)
    /\ raised' = [raised EXCEPT ![si].simulate = TRUE]
    /\ ThrowInBacktestStrategy
    /\ UNCHANGED <<inputs, ti, retryCount, tickerData, run, returned, waits, attempts,
                   lastResponse, rateLimited, other>>

\* The loop over the trading days is over: the metrics and the result.
FinishRealBacktest ==
    /\ pc = "day"
    /\ run.day > Len(TradingDays)
    /\ PushResults(Once(LAMBDA acc : [e \in Engines |->
                         RealResult(CurrentStrategy, acc, capital, startDate, endDate)],
                        run),
                   seed, "real")
    /\ UNCHANGED <<inputs, ti, retryCount, tickerData, run, returned, waits, attempts,
                   lastResponse, rateLimited, raised, other>>

RECURSIVE RunAgainFrom(_, _, _)
\* What runBacktest does with the result m of generateMockBacktestResult for
\* strategy i in its second call.
PushMockAgain(i, rs, m) == RunAgainFrom(i + 1, m.seed, Append(rs, m.result))

\* The loop of a second call of runBacktest on instance 1 (lines 701-706), from
\* strategy i on with generator state s and results rs, while the source
\* answers as it did in the first call: each strategy takes the path it took.
\* performRealBacktest reads no field that the first call has changed, so it
\* returns what it returned; generateMockBacktestResult draws from this.seed.
RunAgainFrom(i, s, rs) ==
    IF i > Len(strategies) THEN [results |-> rs, seed |-> s]
    ELSE IF paths[i] = "real"
    THEN RunAgainFrom(i + 1, s, Append(rs, returned[1][i]))
    ELSE PushMockAgain(i, rs, generateMockBacktestResult(strategies[i], s, capital,
                                                         startDate, endDate, mode))

ReturnAgain(r) ==
    /\ again' = r.results
    /\ seed' = [seed EXCEPT ![SeedCell(1)] = r.seed]

\* runBacktest is called again on instance 1 after it has returned, and returns:
\* nothing resets this.seed between the calls (lines 694-709).
RunBacktestAgain ==
    /\ pc = "returned"
    /\ ReturnAgain(Once(LAMBDA s : RunAgainFrom(1, s, <<>>), seed[SeedCell(1)]))
    /\ pc' = "again"
    /\ UNCHANGED <<inputs, si, ti, retryCount, tickerData, run, results, returned, waits,
                   attempts, lastResponse, rateLimited, raised, paths, fetched, sim,
                   analysis, gen, cal>>

Next ==
    \/ BeginStrategy
    \/ RateLimitedRetry
    \/ BackoffElapsed
    \/ RateLimitedGiveUp
    \/ FetchFails
    \/ FetchSucceeds
    \/ NextTicker
    \/ FallBackToMock
    \/ BeginRealBacktest
    \/ SimulateDay
    \/ SimulateDayFails
    \/ FinishRealBacktest
    \/ Return
    \/ RunBacktestAgain

Spec == Init /\ [][Next]_vars

\* An engine constructed for a Friday-to-Monday range in single mode.
LiveInit ==
    /\ capital \in Capitals
    /\ strategies \in StrategyLists
    /\ startDate = DateAt(Jan1 + 4, 600)
    /\ endDate = DateAt(Jan1 + 7, 600)
    /\ mode = "single"
    /\ Constructed

\* The runs of that engine under a scheduler that runs every continuation
\* that is ready: each request of the source is answered or fails, each timer
\* fires, each awaited promise settles.
FairSpec == LiveInit /\ [][Next]_vars /\ WF_vars(Next)

---------------------------------------------------------------------------
(* The bar loop of one ticker-day, one iteration at a time *)

mainVars == <<capital, strategies, startDate, endDate, mode, seed, pc, si, ti, retryCount,
              tickerData, run, results, returned, waits, attempts, lastResponse,
              rateLimited, raised, paths, fetched, again>>

\* No run of runBacktest is in progress.
NoRun ==
    /\ capital = 50
    /\ strategies = <<>>
    /\ startDate = DateAt(Jan1 + 3, 600)
    /\ endDate = DateAt(Jan1 + 3, 600)
    /\ mode = "single"
    /\ seed = [e \in Engines |-> 0]
    /\ pc = "idle"
    /\ si = 1
    /\ ti = 1
    /\ retryCount = 0
    /\ tickerData = <<>>
    /\ run = RunStart(0)
    /\ results = [e \in Engines |-> <<>>]
    /\ returned = [e \in Engines |-> <<>>]
    /\ waits = <<>>
    /\ attempts = 0
    /\ lastResponse = "none"
    /\ rateLimited = 0
    /\ raised = <<>>
    /\ paths = <<>>
    /\ fetched = <<>>
    /\ again = <<>>

Quiet == BarCV(BaseClose, BaseVolume)
\* Further bars after a Surge: a second signal short of the take profit, a rise
\* past the take profit on quiet volume, a signal after all of these, a fall
\* below 98% of the average close.
Swell == BarCV(BaseClose + 20, 4 * BaseVolume)
Rise == BarCV(BaseClose + 50, BaseVolume)
Spike == BarCV(BaseClose + 110, 8 * BaseVolume)
Dip == BarCV(BaseClose - 90, BaseVolume)
\* A rise after a Surge that stays short of the take profit.
Crest == BarCV(BaseClose + 35, BaseVolume)
BarKinds == {Quiet, Surge, Swell, Rise, Spike, Dip}

\* Bound on the bars that follow the lookback bars of a day.
MaxTail == 2
Tails ==
    UNION {[1..n -> BarKinds] : n \in 0..MaxTail}
    \cup {<<Surge, Swell, Rise, Spike>>, <<Surge, Crest, Quiet>>}

\* The quiet bars a day starts with: one short of the lookback, the lookback.
Lookbacks == {MinLookback - 1, MinLookback}

SimStrategies ==
    {Strategy("a", "momentum", <<"AAPL">>, Parameters(20)),
     Strategy("a", "momentum", <<"AAPL">>,
              [Parameters(20) EXCEPT !.timeBasedExit = TRUE, !.maxHoldTime = 1]),
     Strategy("a", "momentum", <<"AAPL">>, [Parameters(20) EXCEPT !.trailingStop = TRUE]),
     Strategy("a", "momentum", <<"AAPL">>,
              [Parameters(20) EXCEPT !.volumeThreshold = 3 * BaseVolume,
                                     !.priceChangeThreshold = 15]),
     Strategy("a", "microscalping", <<"AAPL">>, Parameters(20)),
     Strategy("a", "microscalping", <<"AAPL">>,
              [Parameters(100) EXCEPT !.riskPerTrade = 20, !.stopLossDollar = 10,
                                      !.takeProfitDollar = 10, !.maxDailyTrades = 1]),
     Strategy("a", "mean-reversion", <<"AAPL">>, Parameters(20)),
     Strategy("a", "breakout", <<"AAPL">>, Parameters(20)),
     Strategy("a", "gap-and-go", <<"AAPL">>, Parameters(20)),
     Strategy("a", "news-scalping", <<"AAPL">>, Parameters(100))}

\* simulateTickerTrading(strategy, ticker, dayData, currentEquity) is called:
\* its locals before the loop (lines 855-857).
SimInit ==
    /\ NoRun
    /\ analysis = Idle
    /\ gen = Idle
    /\ cal = Idle
    /\ \E strategy \in SimStrategies, prefix \in Lookbacks, tail \in Tails :
          sim = [active |-> TRUE, strategy |-> strategy, ticker |-> "AAPL",
                 dayData |-> DayBars(Shape(prefix, tail), Jan1 + 3),
                 currentEquity |-> 50 * UnitsPerDollar,
                 i |-> 0, st |-> SimStart, done |-> FALSE, openAtEnd |-> FALSE]

\* One iteration of the for loop (lines 859-899).
SimBar ==
    /\ sim.active
    /\ ~sim.done
    /\ sim.i < Len(sim.dayData)
    /\ sim' = [sim EXCEPT !.st = BarStep(sim.strategy, sim.ticker, sim.dayData, sim.i,
                                         sim.currentEquity, sim.st),
                          !.i = @ + 1]
    /\ UNCHANGED <<mainVars, analysis, gen, cal>>

\* The loop is over: the close at market close and return trades (lines 901-917).
SimClose ==
    /\ sim.active
    /\ ~sim.done
    /\ sim.i >= Len(sim.dayData)
    /\ sim' = [sim EXCEPT !.st = CloseRemaining(sim.dayData, sim.st),
                          !.openAtEnd = sim.st.position # <<>>,
                          !.done = TRUE]
    /\ UNCHANGED <<mainVars, analysis, gen, cal>>

SimNext ==
    \/ SimBar
    \/ SimClose

SpecSim == SimInit /\ [][SimNext]_vars

---------------------------------------------------------------------------
(* The performance analyzer on trade logs of its own *)

\* The pnl of a trade, in dollars.
PnlValues == {-60, -1, 0, 2, 30}
\* Bound on the trades of one day.
MaxDayTrades == 2
DayLogs == UNION {[1..n -> PnlValues] : n \in 0..MaxDayTrades}

\* The fields of a Trade the analyzer reads.
TradeOf(pnl) == [pnl |-> pnl * UnitsPerDollar, holdTime |-> 5]

\* performRealBacktest before its loop, with the day's trades already decided.
AnalysisInit ==
    /\ NoRun
    /\ sim = Idle
    /\ gen = Idle
    /\ cal = Idle
    /\ \E n \in 1..2 : \E logs \in [1..n -> DayLogs] :
          analysis = [active |-> TRUE, pending |-> logs,
                      acc |-> RunStart(50 * UnitsPerDollar),
                      capitalUnits |-> 50 * UnitsPerDollar,
                      start |-> DateAt(Jan1 + 3, 600),
                      end |-> DateAt(Jan1 + 3 + n - 1, 600),
                      done |-> FALSE, metrics |-> getEmptyMetrics]

\* The rest of an iteration of the loop over the trading days (lines 763-775).
AnalysisDay ==
    /\ analysis.active
    /\ ~analysis.done
    /\ analysis.acc.day <= Len(analysis.pending)
    /\ analysis' =
          [analysis EXCEPT !.acc =
              DayEnd(analysis.acc,
                     analysis.start + (analysis.acc.day - 1) * MinutesPerDay,
                     [k \in 1..Len(analysis.pending[analysis.acc.day]) |->
                         TradeOf(analysis.pending[analysis.acc.day][k])],
                     analysis.capitalUnits)]
    /\ UNCHANGED <<mainVars, sim, gen, cal>>

\* this.calculatePerformanceMetrics(allTrades, equityCurve) (line 779).
Analyze ==
    /\ analysis.active
    /\ ~analysis.done
    /\ analysis.acc.day > Len(analysis.pending)
    /\ analysis' =
          [analysis EXCEPT !.metrics =
              calculatePerformanceMetrics(analysis.acc.trades, analysis.acc.equityCurve,
                                          analysis.capitalUnits, analysis.start,
                                          analysis.end),
                           !.done = TRUE]
    /\ UNCHANGED <<mainVars, sim, gen, cal>>

AnalysisNext ==
    \/ AnalysisDay
    \/ Analyze

SpecMetrics == AnalysisInit /\ [][AnalysisNext]_vars

---------------------------------------------------------------------------
(* The sequence generator on seeds of its own *)

\* A generator state with a fractional part: whole + half / 2, half 0 or 1.
\* JavaScript computes seed * 1664525 + 1013904223 and its remainder exactly
\* on such a state (the product stays below 2^52):
\* (w + 1/2) * a + c = w * a + c + (a - 1) / 2 + 1/2 for the odd multiplier a,
\* and the remainder keeps the fractional part.
seededRandomHalves(g) ==
    [whole |-> AddQR([q |-> 0, r |-> seededRandom(g.whole)],
                     [q |-> 0, r |-> g.half * (Multiplier \div 2)]).r,
     half |-> g.half]

\* createSeed (lines 679-686) for a capital given in half dollars.
createSeedHalves(ss, start, end, capHalves) ==
    [whole |-> createSeed(ss, start, end, capHalves \div 2), half |-> capHalves % 2]

\* Capitals in half dollars: 50, 50.50 and 0.50 dollars.
CapitalHalves == {100, 101, 1}

\* Bound on the calls of seededRandom.
MaxDraws == 4

\* The engine is constructed: this.seed = this.createSeed() (line 676).
GenInit ==
    /\ NoRun
    /\ sim = Idle
    /\ analysis = Idle
    /\ cal = Idle
    /\ \E ss \in StrategyLists, range \in DateRanges, capHalves \in CapitalHalves :
          gen = [active |-> TRUE, n |-> 0,
                 state |-> createSeedHalves(ss, range[1], range[2], capHalves)]

\* this.seededRandom() is called (lines 688-692).
GenDraw ==
    /\ gen.active
    /\ gen.n < MaxDraws
    /\ gen' = [gen EXCEPT !.state = seededRandomHalves(@), !.n = @ + 1]
    /\ UNCHANGED <<mainVars, sim, analysis, cal>>

SpecGenerator == GenInit /\ [][GenDraw]_vars

---------------------------------------------------------------------------
(* The trading-day calendar on ranges of its own *)

\* Bound on the days from the day of startDate to the day of endDate.
MaxSpan == 8
\* The times of day of startDate and endDate: midnight, 09:00, 10:00.
CalendarTimes == {0, 9 * 60, 10 * 60}

\* An engine is constructed for a range that starts on any day of a week and
\* ends no earlier than it starts.
CalendarInit ==
    /\ NoRun
    /\ sim = Idle
    /\ analysis = Idle
    /\ gen = Idle
    /\ \E day \in (Jan1 + 3)..(Jan1 + 9), span \in 0..MaxSpan,
          from \in CalendarTimes, to \in CalendarTimes :
          /\ DateAt(day, from) <= DateAt(day + span, to)
          /\ cal = [active |-> TRUE,
                 startDate |-> DateAt(day, from), endDate |-> DateAt(day + span, to),
                 done |-> FALSE, tradingDays |-> <<>>]

\* const tradingDays = this.getTradingDays() (line 758).
GetTradingDays ==
    /\ cal.active
    /\ ~cal.done
    /\ cal' = [cal EXCEPT !.tradingDays = getTradingDays(cal.startDate, cal.endDate),
                          !.done = TRUE]
    /\ UNCHANGED <<mainVars, sim, analysis, gen>>

SpecCalendar == CalendarInit /\ [][GetTradingDays]_vars

---------------------------------------------------------------------------
(* Properties *)

Complete(e) ==
    /\ Len(returned[e]) = Len(strategies)
    /\ \A i \in 1..Len(strategies) : returned[e][i].strategyId = strategies[i].id

\* C1: runBacktest returns exactly one result per input strategy, in input
\* order (length = strategy count, result[i].strategyId = strategies[i].id),
\* whatever the source answered and whichever path each strategy took.
OneResultPerStrategy ==
    pc = "returned" => \A e \in Engines : Complete(e)

\* A run of two strategies has returned: the first took the fallback after a
\* failed fetch, the second the real-data path.
OneResultPerStrategyWitness ==
    /\ pc = "returned"
    /\ paths = <<"mock", "real">>
    /\ raised[1].fetch > 0
    /\ Len(returned[1]) = 2

\* C2: runBacktest never lets an exception reach its caller: any failure raised
\* while fetching, simulating or aggregating a strategy is turned into the
\* synthetic fallback result of that strategy, and the complete list is returned.
FailureYieldsFallback ==
    /\ pc # "thrown"
    /\ pc = "returned" =>
          /\ \A e \in Engines : Complete(e)
          /\ \A i \in 1..Len(strategies) :
                (raised[i].fetch > 0 \/ raised[i].simulate) => paths[i] = "mock"

RECURSIVE WeekdaysFrom(_, _)
\* The weekdays from day `day` to day `last`, in ascending order.
WeekdaysFrom(day, last) ==
    IF day > last THEN <<>>
    ELSE (IF IsWeekend(day * MinutesPerDay) THEN <<>> ELSE <<day>>)
         \o WeekdaysFrom(day + 1, last)

CurveDays(result) ==
    [k \in 1..Len(result.equityCurve) |-> DayOf(result.equityCurve[k].date)]

\* C4: the equity curve of every returned result has exactly one point per
\* weekday of [startDate, endDate], in ascending order of date, no weekend date
\* and no weekday missing, on the real-data path and on the fallback path.
CurveCoversWeekdays ==
    pc = "returned" =>
        \A e \in Engines : \A i \in 1..Len(returned[e]) :
            CurveDays(returned[e][i]) = WeekdaysFrom(DayOf(startDate), DayOf(endDate))

\* C5: every position opened on a ticker-day is closed that day: no trade exits
\* after the last bar of its entry day, each entry has its trade, and a position
\* still open after the last bar is closed at that bar with reason time_exit.
DayEndClosure ==
    sim.active /\ sim.done =>
        /\ sim.st.position = <<>>
        /\ Len(sim.st.trades) = Len(sim.st.entries)
        /\ \A k \in 1..Len(sim.st.trades) :
              /\ sim.st.trades[k].entryTime = At(sim.dayData, sim.st.entries[k]).t
              /\ sim.st.trades[k].exitTime <= sim.dayData[Len(sim.dayData)].t
              /\ DayOf(sim.st.trades[k].exitTime) = DayOf(sim.st.trades[k].entryTime)
        /\ sim.openAtEnd =>
              /\ sim.st.trades[Len(sim.st.trades)].exitTime
                    = sim.dayData[Len(sim.dayData)].t
              /\ sim.st.trades[Len(sim.st.trades)].reason = "time_exit"

\* A day is over on which a first position was closed by an exit rule and a
\* second, with no time-based exit configured, was still open after the last bar.
DayEndClosureWitness ==
    /\ sim.active
    /\ sim.done
    /\ sim.openAtEnd
    /\ ~sim.strategy.parameters.timeBasedExit
    /\ Len(sim.st.trades) = 2
    /\ sim.st.trades[1].reason = "take_profit"

\* C6: at every step of the bar loop at most one position is open: no entry is
\* taken while a position is open, so each trade's entry bar comes strictly
\* after the previous trade's exit bar.
OnePositionAtATime ==
    sim.active =>
        /\ Len(sim.st.position) <= 1
        /\ Len(sim.st.entries) - Len(sim.st.exits) = Len(sim.st.position)
        /\ Len(sim.st.exits) = Len(sim.st.trades)
        /\ \A k \in 1..Len(sim.st.exits) : sim.st.entries[k] <= sim.st.exits[k]
        /\ \A k \in 2..Len(sim.st.entries) : sim.st.entries[k] > sim.st.exits[k - 1]

\* A day is over with two trades, on which the rule signalled an entry on a bar
\* while the first position was open.
OnePositionAtATimeWitness ==
    /\ sim.active
    /\ sim.done
    /\ Len(sim.st.trades) = 2
    /\ \E i \in 0..(Len(sim.dayData) - 1) :
          /\ shouldEnter(sim.strategy, sim.dayData, i)
          /\ sim.st.entries[1] < i
          /\ i < sim.st.exits[1]

\* C7: every numeric field of every returned PerformanceMetrics is finite,
\* runs whose equity falls to zero or below included, and a ratio is 0 when its
\* denominator is zero (Sharpe at zero volatility, Calmar at zero max drawdown).
MetricsFinite ==
    pc = "returned" =>
        \A e \in Engines : \A i \in 1..Len(returned[e]) :
            /\ \A f \in MetricFields : IsFinite(returned[e][i].performance[f])
            /\ IsZeroMetric(returned[e][i].performance.volatility)
                  => IsZeroMetric(returned[e][i].performance.sharpeRatio)
            /\ IsZeroMetric(returned[e][i].performance.maxDrawdown)
                  => IsZeroMetric(returned[e][i].performance.calmarRatio)

\* shouldEnter is false on every bar of every trading day of the bars fetched
\* for strategy i.
NeverSignals(i) ==
    \A k \in 1..Len(fetched[i]) : \A d \in 1..Len(TradingDays) :
        \A idx \in 0..(Len(getDayData(EntryBars(fetched[i][k], startDate, endDate),
                                      TradingDays[d])) - 1) :
            ~shouldEnter(strategies[i],
                         getDayData(EntryBars(fetched[i][k], startDate, endDate),
                                    TradingDays[d]),
                         idx)

\* An empty trade log, every metric 0, every point of the curve at the capital.
Degenerate(result) ==
    /\ result.trades = <<>>
    /\ result.performance = getEmptyMetrics
    /\ \A k \in 1..Len(result.equityCurve) :
          result.equityCurve[k].equity = Money(capital * UnitsPerDollar)

RECURSIVE GrossOf(_, _)
\* The sum of sign * pnl over the pnls of that sign.
GrossOf(pnls, sign) ==
    IF pnls = <<>> THEN 0
    ELSE (IF sign * Head(pnls) > 0 THEN sign * Head(pnls) ELSE 0)
         + GrossOf(Tail(pnls), sign)

\* C9: for a non-empty trade log with no losing trade the profit factor is
\* exactly 0; with a losing trade it is the sum of the positive pnl divided by
\* the absolute value of the sum of the negative pnl.
ProfitFactorPolicy ==
    analysis.active /\ analysis.done /\ Len(analysis.acc.trades) > 0 =>
        IF \A k \in 1..Len(analysis.acc.trades) : analysis.acc.trades[k].pnl >= 0
        THEN analysis.metrics.profitFactor = Zero
        ELSE analysis.metrics.profitFactor
                = Rat(1, GrossOf(Pnls(analysis.acc.trades), 1),
                      GrossOf(Pnls(analysis.acc.trades), -1))

\* The metrics of a log of winning trades only have been computed.
ProfitFactorPolicyWitness ==
    /\ analysis.active
    /\ analysis.done
    /\ Len(analysis.acc.trades) >= 2
    /\ \A k \in 1..Len(analysis.acc.trades) : analysis.acc.trades[k].pnl > 0
    /\ analysis.metrics.profitFactor = Zero

\* The waits before the first, second and third retry, in milliseconds.
BackoffSchedule == <<1000, 2000, 4000>>

\* C10: a request answered 429 is retried at most 3 times, after waits of 1 s,
\* 2 s and 4 s; a 429 answer to the third retry abandons the request with an
\* error (no fifth attempt), and any other answer ends the retries.
RateLimitRetry ==
    /\ attempts <= Len(BackoffSchedule) + 1
    /\ Len(waits) <= Len(BackoffSchedule)
    /\ \A k \in 1..Len(waits) : waits[k] = BackoffSchedule[k]
    /\ pc = "backoff" => lastResponse = "rate_limited" /\ Len(waits) = retryCount + 1
    /\ pc = "fetch" => Len(waits) = retryCount /\ attempts = retryCount
    /\ pc = "pause" /\ lastResponse = "rate_limited" =>
          attempts = Len(BackoffSchedule) + 1 /\ raised[si].fetch > 0
    /\ lastResponse \in FetchErrors \cup {"ok"} => pc = "pause"

\* A request was answered 429 four times, waited 1 s, 2 s and 4 s, and was
\* abandoned with an error.
RateLimitRetryWitness ==
    /\ pc = "pause"
    /\ lastResponse = "rate_limited"
    /\ attempts = 4
    /\ waits = BackoffSchedule
    /\ raised[si].fetch = 1

---------------------------------------------------------------------------
(* Fallback, validation and retries of failures                            *)

\* <<capital, startDate, endDate>> that the contract of runBacktest excludes:
\* no capital on a Friday; a Monday start with an end on the Friday before.
InvalidInputs ==
    {<<0, DateAt(Jan1 + 4, 600), DateAt(Jan1 + 4, 600)>>,
     <<50, DateAt(Jan1 + 7, 600), DateAt(Jan1 + 4, 600)>>}

\* An engine constructed from invalid inputs: `new BacktestingEngine(...)`
\* succeeds (lines 669-677) and runBacktest starts as from valid ones.
InvalidInit ==
    /\ \E input \in InvalidInputs :
          capital = input[1] /\ startDate = input[2] /\ endDate = input[3]
    /\ strategies \in StrategyLists
    /\ mode \in Modes
    /\ Constructed

SpecInvalid == InvalidInit /\ [][Next]_vars

\* C12: an end date before the start date, or a capital that is not positive,
\* is rejected before any request is sent, any day simulated or any result
\* synthesized, and runBacktest returns no list.
InvalidInputRejected ==
    endDate < startDate \/ capital <= 0 =>
        /\ pc \notin {"fetch", "backoff", "pause", "simulate", "day", "returned"}
        /\ paths = <<>>
        /\ \A e \in Engines : results[e] = <<>>

\* The tickers that have bars in the data a strategy was computed from.
TickersOf(data) == {data[k].ticker : k \in 1..Len(data)}

\* C11: a ticker whose request was abandoned still contributes data to the
\* result of its strategy: when the strategy is computed from the bars of its
\* other tickers, the abandoned ticker is among the tickers with data.
AbandonedTickerContributes ==
    pc = "returned" =>
        \A i \in 1..Len(strategies) :
            paths[i] = "real" =>
                \A k \in 1..Len(raised[i].abandoned) :
                    raised[i].abandoned[k] \in TickersOf(fetched[i])

\* C13: a failure other than a rate limit (a status that is not ok, a network
\* error, an API status that is not OK) is retried with backoff too: the
\* request is abandoned on such a failure only when the retries are used up,
\* and the failure never reaches the caller of runBacktest.
TransientFailureRetried ==
    /\ pc # "thrown"
    /\ pc = "pause" /\ lastResponse \in FetchErrors =>
          retryCount = MaxRetries /\ Len(waits) = MaxRetries

\* C14: for every seed createSeed derives from accepted inputs (start <= end,
\* capital > 0), after every call of seededRandom the generator state is an
\* integer in [0, 2147483647), so that the value returned, state / 2147483647,
\* lies in [0, 1).
GeneratorRange ==
    gen.active /\ gen.n > 0 =>
        /\ gen.state.half = 0
        /\ 0 <= gen.state.whole
        /\ gen.state.whole < Modulus

---------------------------------------------------------------------------
(* Repeated runs and isolation of strategies *)

\* C15: a second call of runBacktest on the same engine, with the same inputs
\* and a source that answers as before, returns a list equal to the one the
\* first call returned.
SecondRunAgrees ==
    pc = "again" => again = returned[1]

\* Whether every strategy before the i-th can be computed from real bars.
EarlierMayBeReal(i) == \A j \in 1..(i - 1) : strategies[j].parameters.defined

\* C16: the result of a strategy does not depend on whether an earlier
\* strategy of the run was computed from real bars or took the fallback: a
\* strategy that takes the fallback gets the result it gets when every earlier
\* strategy is computed from real bars, which draws nothing from the generator.
StrategyIsolation ==
    pc = "returned" =>
        \A i \in 1..Len(strategies) :
            paths[i] = "mock" /\ EarlierMayBeReal(i) =>
                returned[1][i] =
                    generateMockBacktestResult(
                        strategies[i],
                        createSeed(strategies, startDate, endDate, capital),
                        capital, startDate, endDate, mode).result

---------------------------------------------------------------------------
(* Consistency of a result *)

\* Whether two metrics are the same number.
SameNumber(x, y) == x = y \/ (IsZeroMetric(x) /\ IsZeroMetric(y))

\* Whether every factor 1 + (r - 0.5) * 0.02 of a synthetic equity (line 1322)
\* is below 1, r = d / Modulus being below one half for each of its draws d:
\* the equity is then below the capital.
BelowCapital(equity) ==
    \A k \in 1..Len(equity.draws) : equity.draws[k] <= Modulus \div 2

\* C17: in every result returned, computed from real bars or synthesized,
\* performance.totalReturn is 100 * (final equity - capital) / capital for the
\* equity of the last point of the result's curve.  The synthetic totalReturn
\* is 100 * baseReturn, at least 0.3: it needs a final equity above the capital.
TotalReturnFromCurve ==
    pc = "returned" =>
        \A i \in 1..Len(strategies) :
            Len(returned[1][i].equityCurve) > 0 =>
                IF paths[i] = "real"
                THEN SameNumber(returned[1][i].performance.totalReturn,
                                returned[1][i].equityCurve[
                                    Len(returned[1][i].equityCurve)].return)
                ELSE ~BelowCapital(returned[1][i].equityCurve[
                                       Len(returned[1][i].equityCurve)].equity)

\* C18: in every result returned, computed from real bars or synthesized,
\* performance.totalTrades is the number of trades in the result's trade log.
TradeCountMatchesLog ==
    pc = "returned" =>
        \A i \in 1..Len(strategies) :
            returned[1][i].performance.totalTrades = Len(returned[1][i].trades)

---------------------------------------------------------------------------
(* Exit rules and trading days *)

\* The exit conditions of a position entered at entryPrice and entryTime, on a
\* bar: the close at or below the stop, at or above the target, the hold time
\* at or above the maximum of a strategy with the time-based exit.
StopLossHolds(params, entryPrice, bar) ==
    100 * bar.c * UnitsPerCent <= entryPrice * (100 - OrElse(params.stopLoss, DefaultStopLoss))
TakeProfitHolds(params, entryPrice, bar) ==
    100 * bar.c * UnitsPerCent >= entryPrice * (100 + OrElse(params.takeProfit, DefaultTakeProfit))
MaxHoldHolds(params, entryTime, bar) ==
    params.timeBasedExit /\ bar.t - entryTime >= OrElse(params.maxHoldTime, DefaultMaxHoldTime)

\* The reason the priority order gives on a bar; "none" when no condition holds.
\* The trailing stop of the code has no condition: it never holds.
ReasonByPriority(params, entryPrice, entryTime, bar) ==
    IF StopLossHolds(params, entryPrice, bar) THEN "stop_loss"
    ELSE IF TakeProfitHolds(params, entryPrice, bar) THEN "take_profit"
    ELSE IF MaxHoldHolds(params, entryTime, bar) THEN "time_exit"
    ELSE "none"

\* The reason by priority on bar j of the day for the position of trade t.
ReasonAt(t, j) ==
    ReasonByPriority(sim.strategy.parameters, t.entryPrice, t.entryTime,
                     At(sim.dayData, j))

\* Whether trade k was closed after the loop, at market close.
ClosedAtMarketClose(k) == sim.done /\ sim.openAtEnd /\ k = Len(sim.st.trades)

EquityBefore(result, d) ==
    IF d = 1 THEN result.capital * UnitsPerDollar
    ELSE result.equityCurve[d - 1].equity.units

\* Whether every trade of `expected` is in the trade log `trades`.
AllIn(expected, trades) ==
    \A n \in 1..Len(expected) : \E j \in 1..Len(trades) : trades[j] = expected[n]

\* Whether the result of strategy i holds the trades of the Trade Simulator
\* run on the bars dayData of a ticker on trading day d.
SimulatedOn(i, d, ticker, dayData) ==
    Len(dayData) > 0 =>
        AllIn(simulateTickerTrading(strategies[i], ticker, dayData,
                                    EquityBefore(returned[1][i], d)),
              returned[1][i].trades)

\* C20: for every trading day of the range and every ticker with bars on that
\* day the Trade Simulator is run, whatever the time of day of startDate and
\* the trading-hours window: the trades it gives on those bars are in the
\* result of the strategy.
EveryTradingDaySimulated ==
    pc = "returned" =>
        \A i \in 1..Len(strategies) :
            paths[i] = "real" =>
                \A d \in 1..Len(TradingDays), k \in 1..Len(fetched[i]) :
                    SimulatedOn(i, d, fetched[i][k].ticker,
                                getDayData(EntryBars(fetched[i][k], startDate, endDate),
                                           TradingDays[d]))

---------------------------------------------------------------------------
(* Equity, entries and trades *)

\* The trades of a log emitted on the day of `date` or before.
TradesUpTo(trades, date) ==
    SelectSeq(trades, LAMBDA t : DayOf(t.exitTime) <= DayOf(date))
\* The trades of a log emitted on the day of `date`.
TradesOn(trades, date) ==
    SelectSeq(trades, LAMBDA t : DayOf(t.exitTime) = DayOf(date))

\* The equity fold of a curve over a trade log from a capital.
EquityFoldOf(curve, trades, capitalUnits) ==
    /\ \A d \in 1..Len(curve) :
          /\ curve[d].equity.units
                = capitalUnits + SumOf(Pnls(TradesUpTo(trades, curve[d].date)))
          /\ TradesOn(trades, curve[d].date) = <<>> =>
                curve[d].equity.units
                  = IF d = 1 THEN capitalUnits ELSE curve[d - 1].equity.units
    /\ Len(curve) > 0 =>
          curve[Len(curve)].equity.units = capitalUnits + SumOf(Pnls(trades))

\* C21: on the real-data path the equity recorded for each trading day is the
\* capital plus the pnl of all trades of that day and of the days before; a
\* day without trades records the equity of the day before (the capital on
\* the first day); the final equity is the capital plus the pnl of the log.
EquityFold ==
    /\ pc = "day" =>
          EquityFoldOf(run.equityCurve, run.trades, capital * UnitsPerDollar)
    /\ pc = "returned" =>
          \A i \in 1..Len(strategies) :
              paths[i] = "real" =>
                  EquityFoldOf(returned[1][i].equityCurve, returned[1][i].trades,
                               capital * UnitsPerDollar)

\* A result over two trading days with trades of non-zero pnl on both.
EquityFoldWitness ==
    /\ pc = "returned"
    /\ Len(strategies) > 0
    /\ paths[1] = "real"
    /\ Len(returned[1][1].equityCurve) = 2
    /\ \A d \in 1..2 :
          /\ TradesOn(returned[1][1].trades, returned[1][1].equityCurve[d].date) # <<>>
          /\ SumOf(Pnls(TradesOn(returned[1][1].trades,
                                 returned[1][1].equityCurve[d].date))) # 0

\* The thresholds shouldEnter compares a bar with (lines 927 and 933):
\* the volume, and the relative close change in tenths of a percent.
PassesPreFilters(params, data, index) ==
    /\ index >= 20
    /\ At(data, index).v >= OrElse(params.volumeThreshold, DefaultVolumeThreshold)
    /\ 1000 * Abs(At(data, index).c - At(data, index - 1).c)
          >= At(data, index - 1).c * OrElse(params.priceChangeThreshold, 1)

\* C22: for every strategy type no position is opened on a bar of index below
\* 20 in the day's bars, nor on a bar whose volume is below the volume
\* threshold, nor on a bar whose absolute relative close change against the
\* previous bar is below the price-change threshold; a ticker-day of 20 bars
\* or fewer emits no trade.
EntryPreFilters ==
    sim.active =>
        /\ \A k \in 1..Len(sim.st.entries) :
              PassesPreFilters(sim.strategy.parameters, sim.dayData, sim.st.entries[k])
        /\ Len(sim.dayData) <= 20 => sim.st.trades = <<>> /\ sim.st.position = <<>>

\* A day is over on which the momentum rule held on bar 19 and the first
\* position was opened on bar 20.
EntryPreFiltersWitness ==
    /\ sim.active
    /\ sim.done
    /\ sim.strategy.type = "momentum"
    /\ sim.st.entries # <<>>
    /\ sim.st.entries[1] = 20
    /\ momentumEntry(sim.dayData, 19)

\* The strategy types shouldEnter has no case for.
TypesWithoutRule == {"breakout", "gap-and-go", "news-scalping"}

\* C23: a strategy of type breakout, gap-and-go or news-scalping never enters
\* a position, whatever the bars: it opens no position and emits no trade.
NoRuleNoEntry ==
    sim.active /\ sim.strategy.type \in TypesWithoutRule =>
        /\ sim.st.entries = <<>>
        /\ sim.st.position = <<>>
        /\ sim.st.trades = <<>>

\* A day of a news-scalping strategy is over without a trade although bar 20
\* passed the pre-filters and the rules of momentum and microscalping.
NoRuleNoEntryWitness ==
    /\ sim.active
    /\ sim.done
    /\ sim.strategy.type = "news-scalping"
    /\ Len(sim.dayData) > 21
    /\ PassesPreFilters(sim.strategy.parameters, sim.dayData, 20)
    /\ momentumEntry(sim.dayData, 20)
    /\ microscalpingEntry(sim.dayData, 20)
    /\ sim.st.trades = <<>>

\* Half of the spread of 0.01 dollars, in units.
HalfSpread == UnitsPerDollar \div 200

\* The pnl and pnlPercent of trade t entered on bar `entry` and left on bar `exit`.
PnlOf(t, entry, exit) ==
    /\ t.entryPrice = entry.c * UnitsPerCent + HalfSpread
    /\ t.exitPrice = exit.c * UnitsPerCent - HalfSpread
    /\ t.pnl = (t.exitPrice - t.entryPrice) * t.quantity - t.fees - t.slippage
    /\ t.pnlPercent = Div(100, t.pnl, t.entryPrice * t.quantity)

\* C24: for every trade emitted, closed by an exit rule or at market close,
\* pnl = (exit price - entry price) * quantity - fees - slippage and pnlPercent
\* is pnl over the entry notional entry price * quantity (as a percentage),
\* with entry price = close of the entry bar + half the spread and exit price
\* = close of the exit bar - half the spread.
TradePnl ==
    sim.active =>
        \A k \in 1..Len(sim.st.trades) :
            PnlOf(sim.st.trades[k], At(sim.dayData, sim.st.entries[k]),
                  At(sim.dayData, sim.st.exits[k]))

\* A day is over with a trade closed by the take profit and a trade closed at
\* market close, the first of at least one share and a pnl that is not 0.
TradePnlWitness ==
    /\ sim.active
    /\ sim.done
    /\ sim.openAtEnd
    /\ Len(sim.st.trades) = 2
    /\ sim.st.trades[1].reason = "take_profit"
    /\ sim.st.trades[1].quantity > 0
    /\ sim.st.trades[1].pnl # 0

\* C25: a position is opened only with a quantity of at least one share: no
\* position and no trade has quantity 0, and the pnlPercent of every trade is
\* a defined number, also when the price of the bar exceeds the share of the
\* equity allotted to the position.
AtLeastOneShare ==
    sim.active =>
        /\ \A k \in 1..Len(sim.st.position) : sim.st.position[k].quantity >= 1
        /\ \A k \in 1..Len(sim.st.trades) :
              /\ sim.st.trades[k].quantity >= 1
              /\ IsFinite(sim.st.trades[k].pnlPercent)

---------------------------------------------------------------------------
(* Order of the requests and termination *)

\* Whether the request for the current ticker is over: answered with bars or
\* none, failed, or given up after the last retry.
RequestOver ==
    \/ lastResponse \in FetchErrors \cup {"ok"}
    \/ lastResponse = "rate_limited" /\ ~MayRetry(retryCount)

\* C26: the tickers of a strategy are fetched one at a time in ticker order:
\* a request is sent only for the current ticker, the next ticker becomes
\* current only when the request of the previous one is over and the pause
\* after it has elapsed, the simulation of a strategy starts only after the
\* last of its tickers, and the strategies are taken one after another in
\* list order.
FetchOrdering ==
    [][/\ attempts' > attempts => pc = "fetch" /\ ti <= Len(CurrentStrategy.tickers)
       /\ pc' = "pause" /\ pc # "pause" => RequestOver'
       /\ ti' # ti =>
             \/ pc = "pause" /\ RequestOver /\ ti' = ti + 1
             \/ pc = "strategy" /\ ti' = 1
       /\ pc' = "simulate" /\ pc # "simulate" =>
             /\ si' = si
             /\ ti' = Len(CurrentStrategy.tickers) + 1
       /\ pc' = "day" => pc \in {"simulate", "day"}
       /\ si' # si =>
             /\ si' = si + 1
             /\ pc \in {"simulate", "day", "fetch"}
             /\ Len(results'[1]) = si
       /\ pc' = "fetch" /\ pc = "strategy" => si = Len(results[1]) + 1]_vars

\* The second strategy of the list is about to be simulated: the request of
\* its first ticker was given up and its second ticker returned bars.
FetchOrderingWitness ==
    /\ pc = "simulate"
    /\ si = 2
    /\ Len(CurrentStrategy.tickers) = 2
    /\ raised[si].abandoned = <<CurrentStrategy.tickers[1]>>
    /\ Len(tickerData) = 1
    /\ tickerData[1].ticker = CurrentStrategy.tickers[2]

\* C27: runBacktest eventually completes, for every strategy list, ticker
\* list and date range of the model and whatever the source answers, rate
\* limits to every request included, provided each request is answered or
\* fails.
Termination == <>(pc = "returned")

\* runBacktest has returned from a run in which the source answered every
\* request with a rate limit: four requests for the only ticker.
TerminationWitness ==
    /\ pc = "returned"
    /\ Len(strategies) = 1
    /\ Len(strategies[1].tickers) = 1
    /\ rateLimited = MaxRetries + 1
    /\ raised[1].abandoned = strategies[1].tickers
    /\ paths = <<"mock">>

---------------------------------------------------------------------------
(* Representations of the stops, of the sizing and of the costs *)

\* The position of a scalping strategy with a dollar stop that is open after
\* the bar before sim.i.
DollarStopPositionOpen ==
    /\ sim.active
    /\ ~sim.done
    /\ sim.i >= 1
    /\ sim.strategy.type = "microscalping"
    /\ sim.strategy.parameters.stopLossDollar > 0
    /\ sim.st.position # <<>>

\* C28: the stop of a microscalping strategy is its dollar amount
\* stopLossDollar: a position is not held past a bar whose close is at least
\* that amount below the entry price.
DollarStopApplied ==
    DollarStopPositionOpen
    => sim.st.position[1].entryPrice - At(sim.dayData, sim.i - 1).c * UnitsPerCent
         < sim.strategy.parameters.stopLossDollar * UnitsPerCent

\* C29: under dollar-risk sizing the quantity is computed from riskPerTrade: a
\* position of a scalping strategy with a dollar stop loses at that stop no
\* more than riskPerTrade.
QuantityFromRiskPerTrade ==
    /\ sim.active
    /\ sim.strategy.type = "microscalping"
    /\ sim.strategy.parameters.stopLossDollar > 0
    /\ sim.st.position # <<>>
    => sim.st.position[1].quantity * sim.strategy.parameters.stopLossDollar
         <= sim.strategy.parameters.riskPerTrade

\* C30: the fees of each trade are parameters.commissionPerTrade, 0 included.
FeesAreCommission ==
    sim.active
    => \A k \in 1..Len(sim.st.trades) :
          sim.st.trades[k].fees
            = sim.strategy.parameters.commissionPerTrade * UnitsPerDollar

---------------------------------------------------------------------------
(* Trade cap, trailing stop, drawdown, calendar and momentum rule *)

\* The trades of at least one share opened so far on the day of sim: those
\* closed and the one that is open.
OpenedToday ==
    Cardinality({k \in 1..Len(sim.st.trades) : sim.st.trades[k].quantity >= 1})
    + Cardinality({k \in 1..Len(sim.st.position) : sim.st.position[k].quantity >= 1})

\* C31: a strategy opens no more than parameters.maxDailyTrades trades on one
\* trading day.
DailyTradeCap ==
    sim.active => OpenedToday <= sim.strategy.parameters.maxDailyTrades

\* The highest close of the bars from index `from` to index `to` of data.
RECURSIVE PeakClose(_, _, _)
PeakClose(data, from, to) ==
    IF from >= to THEN At(data, to).c
    ELSE LET rest == PeakClose(data, from + 1, to)
         IN  IF At(data, from).c > rest THEN At(data, from).c ELSE rest

\* A position of a strategy with exitConditions.trailingStop is open after
\* the bar before sim.i.
TrailingPositionOpen ==
    /\ sim.active
    /\ ~sim.done
    /\ sim.i >= 1
    /\ sim.strategy.parameters.trailingStop
    /\ sim.st.position # <<>>

\* C32: with exitConditions.trailingStop enabled a trailing-stop rule closes
\* positions: a position is not held past a bar whose close is at least the
\* stop-loss percentage below the highest close since the entry.
TrailingStopApplied ==
    TrailingPositionOpen
    => 100 * At(sim.dayData, sim.i - 1).c
         > PeakClose(sim.dayData, sim.st.entries[Len(sim.st.entries)], sim.i - 1)
           * (100 - OrElse(sim.strategy.parameters.stopLoss, DefaultStopLoss))

\* No trade is closed with the reason trailing_stop.
NoTrailingStopTrade ==
    sim.active
    => \A k \in 1..Len(sim.st.trades) : sim.st.trades[k].reason # "trailing_stop"

\* The highest of `floor` and of the equities of the points 1..k of a curve.
RECURSIVE RunningPeak(_, _, _)
RunningPeak(curve, k, floor) ==
    IF k = 0 THEN floor
    ELSE LET before == RunningPeak(curve, k - 1, floor)
         IN  IF curve[k].equity.units > before THEN curve[k].equity.units ELSE before

\* Whether the rational md (a percentage, 100 * num / den) is the maximum over
\* the points of the curve of (peak - equity) / peak * 100, for the running
\* peak that starts from `floor`; the peaks are positive.
IsMaxDrawdown(md, curve, floor) ==
    /\ md.kind = "rat"
    /\ md.num >= 0
    /\ md.den > 0
    /\ \A k \in 1..Len(curve) :
          ~ProductLess(md.num, RunningPeak(curve, k, floor),
                       RunningPeak(curve, k, floor) - curve[k].equity.units, md.den)
    /\ \E k \in 1..Len(curve) :
          ~ProductLess(RunningPeak(curve, k, floor) - curve[k].equity.units, md.den,
                       md.num, RunningPeak(curve, k, floor))

\* calculatePerformanceMetrics has returned the metrics of a curve with
\* points.
Analyzed ==
    /\ analysis.active
    /\ analysis.done
    /\ Len(analysis.acc.equityCurve) > 0

\* C33: max drawdown is the maximum over the curve of (running peak - equity)
\* / running peak as a percentage, never negative and 0 for a curve that never
\* falls below its running peak, where the running peak is the highest of the
\* initial capital and of the equities up to and including the current point.
MaxDrawdownFromCapital ==
    Analyzed
    => IsMaxDrawdown(analysis.metrics.maxDrawdown, analysis.acc.equityCurve,
                     analysis.capitalUnits)

\* The metrics of a curve that starts below the capital, recovers past it and
\* falls again.
MaxDrawdownFromCapitalWitness ==
    /\ Analyzed
    /\ Len(analysis.acc.equityCurve) = 2
    /\ analysis.acc.equityCurve[1].equity.units < analysis.capitalUnits
    /\ analysis.acc.equityCurve[2].equity.units > analysis.acc.equityCurve[1].equity.units
    /\ analysis.metrics.maxDrawdown.num > 0

\* C33 as stated: the running peak is the highest equity among the points of
\* the curve up to and including the current one (curves of positive equity).
MaxDrawdownOverCurve ==
    Analyzed /\ analysis.acc.equityCurve[1].equity.units > 0
    => IsMaxDrawdown(analysis.metrics.maxDrawdown, analysis.acc.equityCurve,
                     analysis.acc.equityCurve[1].equity.units)

\* The days of the dates getTradingDays returned.
CalendarDays == [k \in 1..Len(cal.tradingDays) |-> DayOf(cal.tradingDays[k])]

\* C34: getTradingDays returns exactly the dates of [startDate, endDate], both
\* endpoints included, that are not Saturday or Sunday, each once and in
\* ascending order, and none when the range holds only weekend days.
TradingDayCalendar ==
    cal.active /\ cal.done
    => CalendarDays = WeekdaysFrom(DayOf(cal.startDate), DayOf(cal.endDate))

\* The same for a range whose endDate is no earlier in its day than startDate
\* is in its own.
TradingDayCalendarSameTime ==
    cal.active /\ cal.done /\ TimeOfDay(cal.endDate) >= TimeOfDay(cal.startDate)
    => CalendarDays = WeekdaysFrom(DayOf(cal.startDate), DayOf(cal.endDate))

\* Whether no position was open when the loop reached bar j: as many entries
\* as exits on the bars before it.
FlatBefore(j) ==
    Cardinality({k \in 1..Len(sim.st.entries) : sim.st.entries[k] < j})
    = Cardinality({k \in 1..Len(sim.st.exits) : sim.st.exits[k] < j})

\* The volume of bar i is greater than 1.2 times the average volume of the 5
\* bars before it and its close is greater than the close of bar i - 1.
MomentumRule(data, i) ==
    /\ 5 * 10 * At(data, i).v
         > 12 * (At(data, i - 5).v + At(data, i - 4).v + At(data, i - 3).v
                 + At(data, i - 2).v + At(data, i - 1).v)
    /\ At(data, i).c > At(data, i - 1).c

\* C35: once the pre-filters pass, a momentum strategy without a position
\* enters on bar i exactly when the volume of bar i is above 1.2 times the
\* average volume of the 5 bars before i and the close of bar i is above the
\* close of bar i - 1.
MomentumEntryRule ==
    sim.active /\ sim.strategy.type = "momentum"
    => \A j \in 0..(sim.i - 1) :
          FlatBefore(j) /\ PassesPreFilters(sim.strategy.parameters, sim.dayData, j)
          => ((\E k \in 1..Len(sim.st.entries) : sim.st.entries[k] = j)
              <=> MomentumRule(sim.dayData, j))

\* A momentum strategy has let bar 20 go, which passed the pre-filters on a
\* volume short of the rule, and entered on bar 21.
MomentumEntryRuleWitness ==
    /\ sim.active
    /\ sim.strategy.type = "momentum"
    /\ sim.i = 22
    /\ sim.st.entries = <<21>>
    /\ PassesPreFilters(sim.strategy.parameters, sim.dayData, 20)
    /\ ~MomentumRule(sim.dayData, 20)
    /\ MomentumRule(sim.dayData, 21)

====
